---- MODULE Spec2Model ----
(***************************************************************************)
(* A model of the XDG/D-Bus client of notify-rust: the Notification        *)
(* builder (src/src/notification.rs), the NotificationHandle and the       *)
(* signal wait loop (src/src/xdg.rs), and the Service Endpoint that        *)
(* answers its calls (stop_server in src/src/xdg.rs, its handler in        *)
(* src/examples/server.rs).                                                *)
(*                                                                         *)
(* Values of Rust enums are tuples <<tag, payload...>>:                    *)
(*   MessageItem   <<"UInt32", n>>  <<"Str", s>>  <<"Int32", n>> ...       *)
(*   Option<u32>   <<"None">>  <<"Some", n>>                               *)
(*   Timeout       <<"Default">>  <<"Never">>  <<"Milliseconds", n>>       *)
(*   Result        <<"Ok", ...>>  <<"Err">>                                *)
(***************************************************************************)
EXTENDS Integers, Sequences, FiniteSets, TLC

VARIABLES
    debug_namespace,  \* cfg(feature = "debug_namespace") of the build
    notification,     \* the caller's Notification (the builder)
    n_ops,            \* number of setter calls made so far
    handle,           \* the NotificationHandle returned by show()
    n_sent,           \* number of messages handed to a connection so far
    last_sent,        \* the message handed to a connection last
    last_reply,       \* items of the latest Notify reply received
    last_call,        \* the latest API call and what it returned
    wait,             \* wait_for_action_signal: idle/waiting/done/ended/panicked
    target,           \* the id wait_for_action_signal was called with
    wrapper,          \* which entry point started the wait
    calls,            \* the strings `func` was invoked with, in order
    closure_runs,     \* how often the closure given to on_close ran
    last_item,        \* the ConnectionItem the loop consumed last
    snapshot,         \* the Notification finalize() returned last
    codec,            \* a hint map and a timeout on their way over the wire
    endpoint,         \* the Service Endpoint: its loop, its handlers, its signals
    stopper           \* stop_server: idle, or pausing before it sends Stop

vars == <<debug_namespace, notification, n_ops, handle, n_sent, last_sent, last_reply,
          last_call, wait, target, wrapper, calls, closure_runs, last_item,
          snapshot, codec, endpoint, stopper>>

waitVars == <<wait, target, wrapper, calls, closure_runs, last_item>>

(***************************************************************************)
(* Bounds of the model.                                                    *)
(***************************************************************************)
MaxOps == 1      \* setter calls (on the builder or through the handle)

MaxSent == 3     \* messages handed to a connection

MaxBuild == 3    \* builder calls on one Notification (SpecBuilder)

MaxHints == 2    \* hints of the Notification that is sent (SpecCodec)

MaxCalls == 2    \* Notify calls that arrive at the Service Endpoint

MaxSends == 3    \* sends of the handlers on their senders

MaxStops == 1    \* calls of stop_server

(***************************************************************************)
(* Input domains.                                                          *)
(***************************************************************************)
Ids == {3, 7}

exe_name == "exe"

Urgencies == {"Low", "Critical"}

Hints == {<<"Urgency", u>> : u \in Urgencies} \cup
         {<<"Resident", TRUE>>, <<"Category", "email">>, <<"X", 200>>}

Timeouts == {<<"Default">>, <<"Never">>, <<"Milliseconds", 5000>>}

ActionLists == {<<>>, <<"x">>, <<"a1", "L1">>}

(***************************************************************************)
(* xdg.rs: the namespace and object path of the build.                     *)
(***************************************************************************)
NOTIFICATION_NAMESPACE ==
    IF debug_namespace THEN "de.hoodie.Notifications"
                       ELSE "org.freedesktop.Notifications"

NOTIFICATION_OBJECTPATH ==
    IF debug_namespace THEN "/de/hoodie/Notifications"
                       ELSE "/org/freedesktop/Notifications"

build_message(method_name) ==
    [destination |-> NOTIFICATION_NAMESPACE,
     path        |-> NOTIFICATION_OBJECTPATH,
     interface   |-> NOTIFICATION_NAMESPACE,
     member      |-> method_name,
     items       |-> <<>>]

\* No message has been handed to a connection yet.
NoMessage ==
    [destination |-> "", path |-> "", interface |-> "", member |-> "", items |-> <<>>]

append_items(message, items) ==
    [message EXCEPT !.items = message.items \o items]

(***************************************************************************)
(* notification.rs: the Notification value and its setters.                *)
(***************************************************************************)
Default ==
    [appname  |-> exe_name,
     summary  |-> "",
     subtitle |-> <<"None">>,
     body     |-> "",
     icon     |-> "",
     hints    |-> {},
     actions  |-> <<>>,
     timeout  |-> <<"Default">>,
     id       |-> <<"None">>]

appname(n, a)  == [n EXCEPT !.appname = a]

summary(n, s)  == [n EXCEPT !.summary = s]

subtitle(n, s) == [n EXCEPT !.subtitle = <<"Some", s>>]

body(n, b)     == [n EXCEPT !.body = b]

icon(n, i)     == [n EXCEPT !.icon = i]

auto_icon(n)   == [n EXCEPT !.icon = exe_name]

\* Equality of two Hint values, as the hint set sees it: hints are keyed by
\* their variant.
HintEq(a, b) == a[1] = b[1]

\* HashSet::insert: a value equal to one already in the set is not inserted
\* and the set keeps the one it has.
HashSetInsert(set, h) ==
    IF \E x \in set : HintEq(x, h) THEN set ELSE set \cup {h}

hint(n, h)     == [n EXCEPT !.hints = HashSetInsert(n.hints, h)]

urgency(n, u)  == hint(n, <<"Urgency", u>>)

timeout(n, t)  == [n EXCEPT !.timeout = t]

actions(n, list) == [n EXCEPT !.actions = list]

\* action with the label not pushed.
action_OnlyIdentifier(n, identifier, label) ==
    [n EXCEPT !.actions = Append(n.actions, identifier)]

\* action with the pair put in front of the actions there are.
action_Prepends(n, identifier, label) ==
    [n EXCEPT !.actions = <<identifier, label>> \o n.actions]

action(n, identifier, label) ==
    [n EXCEPT !.actions = Append(Append(n.actions, identifier), label)]

id(n, i)       == [n EXCEPT !.id = <<"Some", i>>]

\* finalize returning a new Notification instead of a copy of this one.
finalize_Default(n) == Default

\* self.clone(): a Notification of its own with the same fields.
finalize(n)    == n

(***************************************************************************)
(* notification.rs: packing the Notify call.                               *)
(***************************************************************************)

\* Timeout -> i32
TimeoutToI32(t) ==
    CASE t[1] = "Default"      -> 0 - 1
      [] t[1] = "Never"        -> 0
      [] t[1] = "Milliseconds" -> t[2]

\* HintMessage::wrap_hint: the wire key and the value, in a variant. Every
\* variant has one key and one kind of value; an image is a struct of width,
\* height, row stride, has-alpha, bits per sample, channels and the bytes;
\* Custom(name, value) goes out under its own name with a string.
wrap_hint(h) ==
    CASE h[1] = "ActionIcons"   -> <<"action-icons", <<"Variant", <<"Bool", h[2]>>>>>>
      [] h[1] = "Category"      -> <<"category", <<"Variant", <<"Str", h[2]>>>>>>
      [] h[1] = "DesktopEntry"  -> <<"desktop-entry", <<"Variant", <<"Str", h[2]>>>>>>
      [] h[1] = "ImagePath"     -> <<"image-path", <<"Variant", <<"Str", h[2]>>>>>>
      [] h[1] = "Resident"      -> <<"resident", <<"Variant", <<"Bool", h[2]>>>>>>
      [] h[1] = "SoundFile"     -> <<"sound-file", <<"Variant", <<"Str", h[2]>>>>>>
      [] h[1] = "SoundName"     -> <<"sound-name", <<"Variant", <<"Str", h[2]>>>>>>
      [] h[1] = "SuppressSound" -> <<"suppress-sound", <<"Variant", <<"Bool", h[2]>>>>>>
      [] h[1] = "Transient"     -> <<"transient", <<"Variant", <<"Bool", h[2]>>>>>>
      [] h[1] = "X"             -> <<"x", <<"Variant", <<"Int32", h[2]>>>>>>
      [] h[1] = "Y"             -> <<"y", <<"Variant", <<"Int32", h[2]>>>>>>
      [] h[1] = "Urgency"       ->
            <<"urgency", <<"Variant", <<"Byte", CASE h[2] = "Low" -> 0
                                                 [] h[2] = "Normal" -> 1
                                                 [] h[2] = "Critical" -> 2>>>>>>
      [] h[1] = "ImageData"     ->
            <<"image-data",
              <<"Variant", <<"Struct", << <<"Int32", h[2].width>>,
                                          <<"Int32", h[2].height>>,
                                          <<"Int32", h[2].rowstride>>,
                                          <<"Bool", h[2].alpha>>,
                                          <<"Int32", h[2].bits_per_sample>>,
                                          <<"Int32", h[2].channels>>,
                                          <<"Array", "ay", h[2].data>> >>>>>>>>
      [] h[1] = "Custom"        -> <<h[2], <<"Variant", <<"Str", h[3]>>>>>>

\* pack_hints with the test for an empty set the wrong way round.
pack_hints_Inverted(n) ==
    IF n.hints = {}
    THEN <<"Array", "a{sv}", {wrap_hint(h) : h \in n.hints}>>
    ELSE <<"Array", "a{sv}", {}>>

\* The entries of a dict are in the HashSet's iteration order, which is
\* arbitrary: the array's content is the set of its entries.
pack_hints(n) ==
    IF n.hints # {}
    THEN <<"Array", "a{sv}", {wrap_hint(h) : h \in n.hints}>>
    ELSE <<"Array", "a{sv}", {}>>

pack_actions(n) ==
    IF n.actions # <<>>
    THEN <<"Array", "as", [i \in 1..Len(n.actions) |-> <<"Str", n.actions[i]>>]>>
    ELSE <<"Array", "as", <<>>>>

\* NotifyCall with the server's default expiry in place of the timeout.
NotifyCall_DefaultTimeout(n, i) ==
    append_items(build_message("Notify"),
                 << <<"Str", n.appname>>,
                    <<"UInt32", i>>,
                    <<"Str", n.icon>>,
                    <<"Str", n.summary>>,
                    <<"Str", n.body>>,
                    pack_actions(n),
                    pack_hints(n),
                    <<"Int32", 0 - 1>> >>)

\* _show, up to the send: the Notify call for notification n and id i.
NotifyCall(n, i) ==
    append_items(build_message("Notify"),
                 << <<"Str", n.appname>>,
                    <<"UInt32", i>>,
                    <<"Str", n.icon>>,
                    <<"Str", n.summary>>,
                    <<"Str", n.body>>,
                    pack_actions(n),
                    pack_hints(n),
                    <<"Int32", TimeoutToI32(n.timeout)>> >>)

(***************************************************************************)
(* The transport (dbus::ffidisp::Connection), seen from its caller.        *)
(*   Connection::get_private        "Ok" | "Err"                           *)
(*   send_with_reply_and_block      <<"Err">> | <<"Reply", items>>         *)
(*   send                           "Ok" | "Err"                           *)
(***************************************************************************)
ConnResults == {"Ok", "Err"}

NotifyReplies ==
    {<<>>, << <<"Str", "7">> >>, << <<"UInt32", 7>>, <<"Str", "extra">> >>}
    \cup {<< <<"UInt32", i>> >> : i \in Ids}

CapabilityReplies ==
    {<<>>,
     << <<"Str", "body">> >>,
     << <<"Array", "as", <<>>>> >>,
     << <<"Array", "av", << <<"Str", "body">>, <<"UInt32", 1>>, <<"Str", "actions">> >>>> >>,
     << <<"UInt32", 1>>, <<"Array", "as", << <<"Str", "body">> >>>> >>}

InformationReplies ==
    {<<>>,
     << <<"Str", "dunst">> >>,
     << <<"Str", "dunst">>, <<"UInt32", 1>>, <<"Str", "1.9">>, <<"Str", "1.2">> >>,
     << <<"UInt32", 1>>, <<"Str", "knopwob">>, <<"Str", "1.9">> >>,
     << <<"Str", "dunst">>, <<"Str", "knopwob">>, <<"Str", "1.9">>, <<"Str", "1.2">> >>}

Outcomes(replies) == {<<"Err">>} \cup {<<"Reply", r>> : r \in replies}

\* _show, from the reply on: the id of the reply, 0 when it has none.
ReplyId(items) ==
    IF Len(items) >= 1 /\ items[1][1] = "UInt32" THEN items[1][2] ELSE 0

\* ShowResult with a reply that holds no id taken as a failure.
ShowResult_Strict(outcome) ==
    IF outcome[1] = "Err" THEN <<"Err">>
    ELSE IF Len(outcome[2]) >= 1 /\ outcome[2][1][1] = "UInt32"
    THEN <<"Ok", outcome[2][1][2]>>
    ELSE <<"Err">>

\* What _show returns for the outcome of send_with_reply_and_block.
ShowResult(outcome) ==
    IF outcome[1] = "Err" THEN <<"Err">> ELSE <<"Ok", ReplyId(outcome[2])>>

\* InnerId with the notification's own id ignored.
InnerId_AlwaysNew(n) == 0

\* Notification::show: self.id.unwrap_or(0)
InnerId(n) == IF n.id[1] = "Some" THEN n.id[2] ELSE 0

\* NotificationHandle::new
NewHandle(i, n) == [state |-> "live", id |-> i, notification |-> n]

\* Before show() has returned a handle there is none; the id and the
\* notification of this value are never read. The model follows one handle:
\* show() is called until it returns one.
NoHandle == [state |-> "none", id |-> 0, notification |-> Default]

\* UpdateCall with the id of the notification in place of the handle's.
UpdateCall_OwnId(h) ==
    NotifyCall(h.notification,
               IF h.notification.id[1] = "Some" THEN h.notification.id[2] ELSE 0)

\* NotificationHandle::update: the Notify call it makes.
UpdateCall(h) == NotifyCall(h.notification, h.id)

\* UpdateOutcome with the id of the reply not assigned.
UpdateOutcome_KeepsId(h, r) ==
    IF r[1] = "Ok"
    THEN [handle |-> h, result |-> <<"Ok">>]
    ELSE [handle |-> h, result |-> <<"Panic">>]

\* UpdateOutcome with a failure dropped instead of unwrapped.
UpdateOutcome_Discards(h, r) ==
    IF r[1] = "Ok"
    THEN [handle |-> [h EXCEPT !.id = r[2]], result |-> <<"Ok">>]
    ELSE [handle |-> h, result |-> <<"Ok">>]

\* NotificationHandle::update, from the result r of _show on: the unwrap,
\* then the assignment to self.id.
UpdateOutcome(h, r) ==
    IF r[1] = "Ok"
    THEN [handle |-> [h EXCEPT !.id = r[2]], result |-> <<"Ok">>]
    ELSE [handle |-> h, result |-> <<"Panic">>]

\* CloseCall with the id of the notification in place of the handle's.
CloseCall_OwnId(h) ==
    append_items(build_message("CloseNotification"),
                 << <<"UInt32", IF h.notification.id[1] = "Some"
                                THEN h.notification.id[2] ELSE 0>> >>)

\* NotificationHandle::close: the CloseNotification call it makes.
CloseCall(h) ==
    append_items(build_message("CloseNotification"), << <<"UInt32", h.id>> >>)

\* NotificationHandle::close: what it returns for the result of send.
CloseResult(send) == <<"Ok">>

\* Vec::get
Get(items, i) == IF i + 1 <= Len(items) THEN <<"Some", items[i + 1]>> ELSE <<"None">>

\* Capabilities giving up at the first element that is no string.
Capabilities_StopsAtNonString(items) ==
    LET first == Get(items, 0) IN
    IF first[1] = "Some" /\ first[2][1] = "Array"
    THEN LET arr == first[2][3]
             n == Cardinality({k \in 1..Len(arr) :
                                 \A j \in 1..k : arr[j][1] = "Str"})
         IN  [i \in 1..n |-> arr[i][2]]
    ELSE <<>>

\* get_capabilities, from the reply on.
Capabilities(items) ==
    LET first == Get(items, 0) IN
    IF first[1] = "Some" /\ first[2][1] = "Array"
    THEN LET strs == SelectSeq(first[2][3], LAMBDA item : item[1] = "Str")
         IN  [i \in 1..Len(strs) |-> strs[i][2]]
    ELSE <<>>

unwrap_message_string(item) ==
    IF item[1] = "Some" /\ item[2][1] = "Str" THEN item[2][2] ELSE ""

\* ServerInformation reading no field behind the first bad one.
ServerInformation_StopsAtBad(items) ==
    LET good(k) == \A j \in 1..k : j <= Len(items) /\ items[j][1] = "Str" IN
    [name         |-> IF good(1) THEN items[1][2] ELSE "",
     vendor       |-> IF good(2) THEN items[2][2] ELSE "",
     version      |-> IF good(3) THEN items[3][2] ELSE "",
     spec_version |-> IF good(4) THEN items[4][2] ELSE ""]

\* get_server_information, from the reply on.
ServerInformation(items) ==
    [name         |-> unwrap_message_string(Get(items, 0)),
     vendor       |-> unwrap_message_string(Get(items, 1)),
     version      |-> unwrap_message_string(Get(items, 2)),
     spec_version |-> unwrap_message_string(Get(items, 3))]

\* CapabilitiesResult with a first field that is no array taken as a failure.
CapabilitiesResult_Strict(outcome) ==
    IF outcome[1] = "Err" THEN <<"Err">>
    ELSE IF Len(outcome[2]) >= 1 /\ outcome[2][1][1] = "Array"
    THEN <<"Ok", Capabilities(outcome[2])>>
    ELSE <<"Err">>

\* What a query returns for the outcome of send_with_reply_and_block.
CapabilitiesResult(outcome) ==
    IF outcome[1] = "Err" THEN <<"Err">> ELSE <<"Ok", Capabilities(outcome[2])>>

ServerInformationResult(outcome) ==
    IF outcome[1] = "Err" THEN <<"Err">> ELSE <<"Ok", ServerInformation(outcome[2])>>

(***************************************************************************)
(* The state after construction: a new Notification, nothing shown.        *)
(***************************************************************************)
Call(op, transport, result) ==
    [op |-> op, transport |-> transport, result |-> result]

\* A call together with the argument it was given, or the reply it read.
CallWith(op, transport, result, arg) ==
    [op |-> op, transport |-> transport, result |-> result, arg |-> arg]

\* Nothing is on its way over the wire.
NoCodec == [phase |-> "none"]

\* No Service Endpoint was started.
NoEndpoint == [pos |-> "none"]

Panicked == last_call.result = <<"Panic">> \/ wait = "panicked"

\* Connection::send and send_with_reply_and_block: the message is handed to
\* the connection.
Send(message) ==
    /\ n_sent' = n_sent + 1
    /\ last_sent' = message

Init ==
    /\ debug_namespace \in BOOLEAN
    /\ notification = Default
    /\ n_ops = 0
    /\ handle = NoHandle
    /\ n_sent = 0
    /\ last_sent = NoMessage
    /\ last_reply = <<"None">>
    /\ last_call = Call("new", "None", <<"Ok">>)
    /\ wait = "idle"
    /\ target = 0
    /\ wrapper = "none"
    /\ calls = <<>>
    /\ closure_runs = 0
    /\ last_item = <<"None">>
    /\ snapshot = <<"None">>
    /\ codec = NoCodec
    /\ endpoint = NoEndpoint
    /\ stopper = "idle"

(***************************************************************************)
(* The setters, called on the caller's Notification or, through DerefMut,  *)
(* on the one the handle owns. nb and nh are the setter's result on each.  *)
(***************************************************************************)
Setter(op, nb, nh) ==
    /\ ~Panicked
    /\ n_ops < MaxOps
    /\ n_ops' = n_ops + 1
    /\ last_call' = Call(op, "None", <<"Ok">>)
    /\ \/ /\ notification' = nb
          /\ UNCHANGED handle
       \/ /\ handle.state = "live"
          /\ handle' = [handle EXCEPT !.notification = nh]
          /\ UNCHANGED notification
    /\ UNCHANGED <<stopper, endpoint, snapshot, codec, debug_namespace, n_sent, last_sent, last_reply, waitVars>>

SetAppname ==
    \E a \in {"thunderbird"} :
        Setter("appname", appname(notification, a), appname(handle.notification, a))

SetSummary ==
    \E s \in {"Hi"} :
        Setter("summary", summary(notification, s), summary(handle.notification, s))

SetSubtitle ==
    \E s \in {"sub"} :
        Setter("subtitle", subtitle(notification, s), subtitle(handle.notification, s))

SetBody ==
    \E b \in {"B"} :
        Setter("body", body(notification, b), body(handle.notification, b))

SetIcon ==
    \E i \in {"clock"} :
        Setter("icon", icon(notification, i), icon(handle.notification, i))

SetAutoIcon ==
    Setter("auto_icon", auto_icon(notification), auto_icon(handle.notification))

SetHint ==
    \E h \in Hints :
        Setter("hint", hint(notification, h), hint(handle.notification, h))

SetUrgency ==
    \E u \in Urgencies :
        Setter("urgency", urgency(notification, u), urgency(handle.notification, u))

SetTimeout ==
    \E t \in Timeouts :
        Setter("timeout", timeout(notification, t), timeout(handle.notification, t))

SetActions ==
    \E l \in ActionLists :
        Setter("actions", actions(notification, l), actions(handle.notification, l))

AddAction ==
    \E a \in {<<"open", "Open">>} :
        Setter("action", action(notification, a[1], a[2]),
                         action(handle.notification, a[1], a[2]))

SetId ==
    \E i \in Ids :
        Setter("id", id(notification, i), id(handle.notification, i))

(***************************************************************************)
(* Notification::show                                                      *)
(***************************************************************************)
Show ==
    \E conn \in ConnResults, outcome \in Outcomes(NotifyReplies) :
        /\ ~Panicked
        /\ handle.state = "none"
        /\ n_sent < MaxSent
        /\ IF conn = "Err"
           THEN /\ last_call' = Call("show", "ConnErr", <<"Err">>)
                /\ UNCHANGED <<n_sent, last_sent, last_reply, handle>>
           ELSE LET r == ShowResult(outcome) IN
                /\ Send(NotifyCall(notification, InnerId(notification)))
                /\ last_reply' = IF outcome[1] = "Reply" THEN <<"Some", outcome[2]>>
                                                         ELSE last_reply
                /\ handle' = IF r[1] = "Ok" THEN NewHandle(r[2], notification)
                                            ELSE handle
                /\ last_call' = Call("show", outcome[1], r)
        /\ UNCHANGED <<stopper, endpoint, snapshot, codec, debug_namespace, notification, n_ops, waitVars>>

(***************************************************************************)
(* NotificationHandle::update                                              *)
(***************************************************************************)
Update ==
    \E outcome \in Outcomes(NotifyReplies) :
        LET o == UpdateOutcome(handle, ShowResult(outcome)) IN
        /\ ~Panicked
        /\ handle.state = "live"
        /\ n_sent < MaxSent
        /\ Send(UpdateCall(handle))
        /\ last_reply' = IF outcome[1] = "Reply" THEN <<"Some", outcome[2]>>
                                                 ELSE last_reply
        /\ handle' = o.handle
        /\ last_call' = Call("update", outcome[1], o.result)
        /\ UNCHANGED <<stopper, endpoint, snapshot, codec, debug_namespace, notification, n_ops, waitVars>>

(***************************************************************************)
(* NotificationHandle::close                                               *)
(***************************************************************************)
Close ==
    \E send \in ConnResults :
        /\ ~Panicked
        /\ handle.state = "live"
        /\ n_sent < MaxSent
        /\ Send(CloseCall(handle))
        /\ handle' = [handle EXCEPT !.state = "consumed"]
        /\ last_call' = Call("close", send, CloseResult(send))
        /\ UNCHANGED <<stopper, endpoint, snapshot, codec, debug_namespace, notification, n_ops, last_reply, waitVars>>

(***************************************************************************)
(* get_capabilities and get_server_information                             *)
(***************************************************************************)
Query(op, method_name, conn, outcome, result) ==
    /\ ~Panicked
    /\ n_sent < MaxSent
    /\ IF conn = "Err"
       THEN /\ last_call' = Call(op, "ConnErr", <<"Err">>)
            /\ UNCHANGED <<n_sent, last_sent>>
       ELSE /\ Send(build_message(method_name))
            /\ last_call' = CallWith(op, outcome[1], result, outcome)
    /\ UNCHANGED <<stopper, endpoint, snapshot, codec, debug_namespace, notification, n_ops, handle, last_reply, waitVars>>

GetCapabilities ==
    \E conn \in ConnResults, outcome \in Outcomes(CapabilityReplies) :
        Query("get_capabilities", "GetCapabilities", conn, outcome,
              CapabilitiesResult(outcome))

GetServerInformation ==
    \E conn \in ConnResults, outcome \in Outcomes(InformationReplies) :
        Query("get_server_information", "GetServerInformation", conn, outcome,
              ServerInformationResult(outcome))

Next ==
    \/ SetAppname \/ SetSummary \/ SetSubtitle \/ SetBody \/ SetIcon
    \/ SetAutoIcon \/ SetHint \/ SetUrgency \/ SetTimeout \/ SetActions
    \/ AddAction \/ SetId
    \/ Show \/ Update \/ Close

Spec == Init /\ [][Next]_vars

(***************************************************************************)
(* The calls that return a Result: show and the two queries.               *)
(***************************************************************************)
NextQuery ==
    \/ SetSummary \/ SetId
    \/ Show \/ GetCapabilities \/ GetServerInformation

SpecQuery == Init /\ [][NextQuery]_vars

(***************************************************************************)
(* The builder alone: chained calls on one Notification, finalize()        *)
(* included. Each call records the argument it was given.                  *)
(***************************************************************************)
Build(op, arg, nb) ==
    /\ n_ops < MaxBuild
    /\ n_ops' = n_ops + 1
    /\ notification' = nb
    /\ last_call' = CallWith(op, "None", <<"Ok">>, arg)
    /\ UNCHANGED <<stopper, endpoint, snapshot, codec, debug_namespace, handle, n_sent, last_sent,
                   last_reply, waitVars>>

BuildAppname ==
    \E a \in {"thunderbird"} : Build("appname", a, appname(notification, a))

BuildSummary ==
    \E x \in {"Hi"} : Build("summary", x, summary(notification, x))

BuildSubtitle ==
    \E x \in {"sub"} : Build("subtitle", x, subtitle(notification, x))

BuildBody ==
    \E b \in {"B"} : Build("body", b, body(notification, b))

BuildIcon ==
    \E i \in {"clock"} : Build("icon", i, icon(notification, i))

BuildAutoIcon ==
    Build("auto_icon", <<>>, auto_icon(notification))

BuildHint ==
    \E h \in Hints : Build("hint", h, hint(notification, h))

BuildUrgency ==
    \E u \in Urgencies : Build("urgency", u, urgency(notification, u))

BuildTimeout ==
    \E t \in Timeouts : Build("timeout", t, timeout(notification, t))

BuildActions ==
    \E l \in ActionLists : Build("actions", l, actions(notification, l))

BuildAction ==
    \E a \in {<<"open", "Open">>} :
        Build("action", a, action(notification, a[1], a[2]))

BuildId ==
    \E i \in Ids : Build("id", i, id(notification, i))

\* finalize(&self): the caller keeps the Notification it returns.
Finalize ==
    /\ n_ops < MaxBuild
    /\ n_ops' = n_ops + 1
    /\ snapshot' = <<"Some", finalize(notification)>>
    /\ last_call' = CallWith("finalize", "None", <<"Ok">>, <<>>)
    /\ UNCHANGED <<stopper, endpoint, codec, debug_namespace, notification, handle, n_sent,
                   last_sent, last_reply, waitVars>>

NextBuilder ==
    \/ BuildAppname \/ BuildSummary \/ BuildSubtitle \/ BuildBody \/ BuildIcon
    \/ BuildAutoIcon \/ BuildHint \/ BuildUrgency \/ BuildTimeout
    \/ BuildActions \/ BuildAction \/ BuildId
    \/ Finalize

SpecBuilder == Init /\ [][NextBuilder]_vars

(***************************************************************************)
(* Hints and timeouts over the wire: show() packs them into the Notify     *)
(* call, and the receiving end unpacks a Notify call, its own or one of    *)
(* another client, into hints and a timeout again.                         *)
(***************************************************************************)

\* A 2x1 RGB image.
ImageSample ==
    [width |-> 2, height |-> 1, rowstride |-> 6, alpha |-> FALSE,
     bits_per_sample |-> 8, channels |-> 3, data |-> <<0, 1, 2, 3, 4, 5>>]

\* Hints of every variant.
AllHints ==
    {<<"ActionIcons", TRUE>>, <<"Category", "email">>, <<"DesktopEntry", "firefox">>,
     <<"ImagePath", "/p.png">>, <<"Resident", TRUE>>,
     <<"SoundFile", "/s.wav">>, <<"SoundName", "bell">>, <<"SuppressSound", FALSE>>,
     <<"Transient", TRUE>>, <<"X", 0 - 5>>, <<"Y", 200>>,
     <<"Urgency", "Low">>, <<"Urgency", "Normal">>, <<"Urgency", "Critical">>,
     <<"ImageData", ImageSample>>, <<"Custom", "vendor-x", "v">>}

\* The hint sets hint() can build: one hint of a variant at most.
HintSets ==
    {H \in SUBSET AllHints :
        /\ Cardinality(H) <= MaxHints
        /\ \A x, y \in H : HintEq(x, y) => x = y}

TimeoutInputs ==
    {<<"Default">>, <<"Never">>}
    \cup {<<"Milliseconds", n>> : n \in {0, 1, 5000, 2147483647}}

\* The Notifications whose hints and timeout are sent.
CodecNotifications ==
    {[Default EXCEPT !.hints = H] : H \in HintSets}
    \cup {[Default EXCEPT !.timeout = t, !.hints = H] :
             t \in TimeoutInputs, H \in {{}, {<<"Urgency", "Critical">>}}}

\* Notify calls of other clients, as <<hint map, timeout>>: unknown keys, alone
\* and next to known ones, with values of several kinds; an urgency that is
\* none; a negative timeout.
ForeignCalls ==
    << <<{}, 0 - 5>>,
       <<{<<"vendor-x", <<"Variant", <<"Str", "v">>>>>>}, 0 - 1>>,
       <<{<<"vendor-x", <<"Variant", <<"Str", "v">>>>>>,
          <<"urgency", <<"Variant", <<"Byte", 2>>>>>>,
          <<"category", <<"Variant", <<"Str", "email">>>>>>}, 5000>>,
       <<{<<"vendor-x", <<"Variant", <<"Bool", TRUE>>>>>>,
          <<"resident", <<"Variant", <<"Bool", TRUE>>>>>>}, 0>>,
       <<{<<"vendor-x", <<"Variant", <<"Str", "v">>>>>>,
          <<"vendor-y", <<"Variant", <<"UInt32", 5>>>>>>,
          <<"x", <<"Variant", <<"Int32", 200>>>>>>}, 0 - 1>>,
       <<{<<"urgency", <<"Variant", <<"Byte", 7>>>>>>,
          <<"category", <<"Variant", <<"Str", "email">>>>>>}, 0 - 1>> >>

\* i32 -> Timeout. What becomes of a negative value other than -1 is left
\* open (rejected or clamped): any of these can be the outcome.
I32ToTimeouts(i) ==
    IF i = 0 - 1 THEN {<<"Default">>}
    ELSE IF i = 0 THEN {<<"Never">>}
    ELSE IF i > 0 THEN {<<"Milliseconds", i>>}
    ELSE {<<"Rejected">>, <<"Default">>, <<"Never">>}

\* The string made of a wire value whose key is not recognized.
ValueString(v) ==
    CASE v[1] = "Str"  -> v[2]
      [] v[1] = "Bool" -> IF v[2] THEN "true" ELSE "false"
      [] OTHER         -> CASE v[2] = 0 -> "0" [] v[2] = 1 -> "1" [] v[2] = 2 -> "2"
                            [] v[2] = 5 -> "5" [] v[2] = 7 -> "7" [] OTHER -> "?"

\* unwrap_hint with an unknown key taken as an error.
unwrap_hint_RejectsUnknown(e) ==
    LET v == e[2][2] IN
    IF e[1] = "category" /\ v[1] = "Str" THEN <<"Category", v[2]>>
    ELSE IF e[1] = "resident" /\ v[1] = "Bool" THEN <<"Resident", v[2]>>
    ELSE IF e[1] = "x" /\ v[1] = "Int32" THEN <<"X", v[2]>>
    ELSE IF e[1] = "urgency" /\ v[1] = "Byte" /\ v[2] = 2 THEN <<"Urgency", "Critical">>
    ELSE <<"Error">>

\* The hint of one entry <<key, value>> of a hint map. A key that is not
\* recognized (or a known key with another kind of value) gives
\* Custom(key, string of the value); an urgency byte other than 0, 1, 2 is
\* an error.
unwrap_hint(e) ==
    LET key == e[1]
        v   == e[2][2]
    IN
    CASE key = "action-icons" /\ v[1] = "Bool"  -> <<"ActionIcons", v[2]>>
      [] key = "category" /\ v[1] = "Str"       -> <<"Category", v[2]>>
      [] key = "desktop-entry" /\ v[1] = "Str"  -> <<"DesktopEntry", v[2]>>
      [] key = "image-path" /\ v[1] = "Str"     -> <<"ImagePath", v[2]>>
      [] key = "resident" /\ v[1] = "Bool"      -> <<"Resident", v[2]>>
      [] key = "sound-file" /\ v[1] = "Str"     -> <<"SoundFile", v[2]>>
      [] key = "sound-name" /\ v[1] = "Str"     -> <<"SoundName", v[2]>>
      [] key = "suppress-sound" /\ v[1] = "Bool" -> <<"SuppressSound", v[2]>>
      [] key = "transient" /\ v[1] = "Bool"     -> <<"Transient", v[2]>>
      [] key = "x" /\ v[1] = "Int32"            -> <<"X", v[2]>>
      [] key = "y" /\ v[1] = "Int32"            -> <<"Y", v[2]>>
      [] key = "urgency" /\ v[1] = "Byte"       ->
            CASE v[2] = 0 -> <<"Urgency", "Low">>
              [] v[2] = 1 -> <<"Urgency", "Normal">>
              [] v[2] = 2 -> <<"Urgency", "Critical">>
              [] OTHER    -> <<"Error">>
      [] key = "image-data" /\ v[1] = "Struct"  ->
            <<"ImageData",
              [width |-> v[2][1][2], height |-> v[2][2][2],
               rowstride |-> v[2][3][2], alpha |-> v[2][4][2],
               bits_per_sample |-> v[2][5][2], channels |-> v[2][6][2],
               data |-> v[2][7][3]]>>
      [] OTHER -> <<"Custom", key, ValueString(v)>>

\* The hints decoded from the entries of a map, those in error left out.
DecodedHints(map) == {unwrap_hint(e) : e \in map} \ {<<"Error">>}

\* The hint sets the decoded entries can be collected into, whatever the
\* order they are inserted in: one hint of each variant decoded.
UnpackHints(map) ==
    {R \in SUBSET DecodedHints(map) :
        /\ \A d \in DecodedHints(map) : \E r \in R : HintEq(r, d)
        /\ \A x, y \in R : HintEq(x, y) => x = y}

\* The receiving end decodes the hints and the timeout of a Notify call.
Receive(origin, map, wire_timeout) ==
    /\ codec.phase = "none"
    /\ \E t \in I32ToTimeouts(wire_timeout), R \in UnpackHints(map) :
          codec' = [phase        |-> "decoded",
                    origin       |-> origin,
                    wire_hints   |-> map,
                    wire_timeout |-> wire_timeout,
                    hints        |-> R,
                    timeout      |-> t,
                    errors       |-> Cardinality({e \in map : unwrap_hint(e) = <<"Error">>})]
    /\ UNCHANGED <<stopper, endpoint, snapshot, debug_namespace, notification, n_ops, handle, n_sent,
                   last_sent, last_reply, last_call, waitVars>>

\* The Notify call show() has sent last is received.
ReceiveSent ==
    /\ last_sent.member = "Notify"
    /\ Receive("sent", last_sent.items[7][3], last_sent.items[8][2])

\* A Notify call of another client is received.
ReceiveForeign ==
    \E k \in 1..Len(ForeignCalls) :
        Receive("foreign", ForeignCalls[k][1], ForeignCalls[k][2])

InitCodec ==
    /\ debug_namespace \in BOOLEAN
    /\ notification \in CodecNotifications
    /\ n_ops = 0
    /\ handle = NoHandle
    /\ n_sent = 0
    /\ last_sent = NoMessage
    /\ last_reply = <<"None">>
    /\ last_call = Call("new", "None", <<"Ok">>)
    /\ wait = "idle"
    /\ target = 0
    /\ wrapper = "none"
    /\ calls = <<>>
    /\ closure_runs = 0
    /\ last_item = <<"None">>
    /\ snapshot = <<"None">>
    /\ codec = NoCodec
    /\ endpoint = NoEndpoint
    /\ stopper = "idle"

NextCodec == Show \/ ReceiveSent \/ ReceiveForeign

SpecCodec == InitCodec /\ [][NextCodec]_vars

(***************************************************************************)
(* xdg.rs: wait_for_action_signal and the calls that start it.             *)
(***************************************************************************)

\* What connection.iter(1000) can yield. A signal carries its path, its
\* interface, its member and its items; a path the message does not have
\* reads as the empty string.
SigMembers == {"ActionInvoked", "NotificationClosed", "ActivationToken"}

SigItems ==
    {<<>>, << <<"Str", "7">>, <<"Str", "open">> >>}
    \cup {<< <<"UInt32", i>> >> : i \in Ids}
    \cup {<< <<"UInt32", i>>, <<"Str", a>> >> : i \in Ids, a \in {"open", "__closed"}}
    \cup {<< <<"UInt32", i>>, <<"UInt32", 2>> >> : i \in Ids}

\* Signals of other paths and interfaces: those of the debug namespace, one
\* without a path, one of another interface on the notification path.
ForeignSources ==
    {<<"/de/hoodie/Notifications", "de.hoodie.Notifications">>,
     <<"", "org.freedesktop.Notifications">>,
     <<"/org/freedesktop/Notifications", "org.freedesktop.DBus.Properties">>}

ConnectionItems ==
    {<<"Nothing">>, <<"MethodCall">>, <<"MethodReturn">>}
    \cup {<<"Signal", "/org/freedesktop/Notifications",
            "org.freedesktop.Notifications", m, f>> :
             m \in SigMembers, f \in SigItems}
    \cup {<<"Signal", src[1], src[2], m, f>> :
             src \in ForeignSources,
             m \in {"ActionInvoked", "NotificationClosed"},
             f \in {<< <<"UInt32", i>>, <<"Str", "open">> >> : i \in Ids}
                   \cup {<< <<"UInt32", i>>, <<"UInt32", 2>> >> : i \in Ids}}

\* The body of the loop for one item, waiting for id i:
\*   <<"Continue">>   the item is dropped and the loop goes on
\*   <<"Call", s>>    func(s) is called and the loop breaks
\*   <<"Panic">>      items[0] or items[1] is out of bounds
LoopBody(item, i) ==
    IF item[1] # "Signal" THEN <<"Continue">>
    ELSE LET path == item[2]
             interface == item[3]
             member == item[4]
             items == item[5]
         IN
         IF /\ path = "/org/freedesktop/Notifications"
            /\ interface = "org.freedesktop.Notifications"
            /\ member = "ActionInvoked"
         THEN IF Len(items) < 2 THEN <<"Panic">>
              ELSE IF /\ items[1][1] = "UInt32"
                      /\ items[2][1] = "Str"
                      /\ items[1][2] = i
                   THEN <<"Call", items[2][2]>>
                   ELSE <<"Continue">>
         ELSE IF /\ path = "/org/freedesktop/Notifications"
                 /\ interface = "org.freedesktop.Notifications"
                 /\ member = "NotificationClosed"
         THEN IF Len(items) < 2 THEN <<"Panic">>
              ELSE IF /\ items[1][1] = "UInt32"
                      /\ items[2][1] = "UInt32"
                      /\ items[1][2] = i
                   THEN <<"Call", "__closed">>
                   ELSE <<"Continue">>
         ELSE <<"Continue">>

\* The closure on_close hands to wait_for_action, called with `action`: how
\* often it runs the caller's closure.
OnCloseFilter(action_string) == IF action_string = "__closed" THEN 1 ELSE 0

\* The start of wait_for_action_signal(connection, i, func): the three
\* add_match calls, each unwrapped.
StartWait(w, i, add_match) ==
    /\ target' = i
    /\ wrapper' = w
    /\ wait' = IF add_match = "Ok" THEN "waiting" ELSE "panicked"
    /\ last_call' = Call(w, add_match,
                         IF add_match = "Ok" THEN <<"Pending">> ELSE <<"Panic">>)
    /\ UNCHANGED <<calls, closure_runs, last_item>>

WaitForAction ==
    \E add_match \in ConnResults :
        /\ ~Panicked
        /\ wait = "idle"
        /\ handle.state = "live"
        /\ handle' = [handle EXCEPT !.state = "consumed"]
        /\ StartWait("wait_for_action", handle.id, add_match)
        /\ UNCHANGED <<stopper, endpoint, snapshot, codec, debug_namespace, notification, n_ops, n_sent, last_sent,
                       last_reply>>

OnClose ==
    \E add_match \in ConnResults :
        /\ ~Panicked
        /\ wait = "idle"
        /\ handle.state = "live"
        /\ handle' = [handle EXCEPT !.state = "consumed"]
        /\ StartWait("on_close", handle.id, add_match)
        /\ UNCHANGED <<stopper, endpoint, snapshot, codec, debug_namespace, notification, n_ops, n_sent, last_sent,
                       last_reply>>

\* handle_action(id, func): a connection of its own, unwrapped.
HandleAction ==
    \E i \in Ids, conn \in ConnResults, add_match \in ConnResults :
        /\ ~Panicked
        /\ wait = "idle"
        /\ IF conn = "Err"
           THEN /\ last_call' = Call("handle_action", "ConnErr", <<"Panic">>)
                /\ UNCHANGED waitVars
           ELSE StartWait("handle_action", i, add_match)
        /\ UNCHANGED <<stopper, endpoint, snapshot, codec, debug_namespace, notification, n_ops, handle, n_sent,
                       last_sent, last_reply>>

\* One turn of `for item in connection.iter(1000)`.
LoopStep ==
    \E item \in ConnectionItems :
        LET r == LoopBody(item, target) IN
        /\ wait = "waiting"
        /\ last_item' = item
        /\ IF r[1] = "Call"
           THEN /\ calls' = Append(calls, r[2])
                /\ closure_runs' = IF wrapper = "on_close"
                                   THEN closure_runs + OnCloseFilter(r[2])
                                   ELSE closure_runs
                /\ wait' = "done"
                /\ last_call' = [last_call EXCEPT !.result = <<"Ok">>]
           ELSE IF r[1] = "Panic"
           THEN /\ wait' = "panicked"
                /\ last_call' = [last_call EXCEPT !.result = <<"Panic">>]
                /\ UNCHANGED <<calls, closure_runs>>
           ELSE UNCHANGED <<wait, last_call, calls, closure_runs>>
        /\ UNCHANGED <<stopper, endpoint, snapshot, codec, debug_namespace, notification, n_ops, handle, n_sent,
                       last_sent, last_reply, target, wrapper>>

\* The iterator is exhausted: the loop ends and the wait returns.
LoopEnd ==
    /\ wait = "waiting"
    /\ wait' = "ended"
    /\ last_item' = <<"End">>
    /\ last_call' = [last_call EXCEPT !.result = <<"Ok">>]
    /\ UNCHANGED <<stopper, endpoint, snapshot, codec, debug_namespace, notification, n_ops, handle, n_sent,
                   last_sent, last_reply, target, wrapper, calls, closure_runs>>

\* A handle as show() returns it for a new Notification.
InitWait ==
    \E r \in NotifyReplies :
        /\ debug_namespace \in BOOLEAN
        /\ notification = Default
        /\ n_ops = 0
        /\ handle = NewHandle(ReplyId(r), Default)
        /\ n_sent = 1
        /\ last_sent = NotifyCall(Default, InnerId(Default))
        /\ last_reply = <<"Some", r>>
        /\ last_call = Call("show", "Reply", ShowResult(<<"Reply", r>>))
        /\ wait = "idle"
        /\ target = 0
        /\ wrapper = "none"
        /\ calls = <<>>
        /\ closure_runs = 0
        /\ last_item = <<"None">>
        /\ snapshot = <<"None">>
        /\ codec = NoCodec
        /\ endpoint = NoEndpoint
        /\ stopper = "idle"

NextWait ==
    \/ WaitForAction \/ OnClose \/ HandleAction
    \/ LoopStep \/ LoopEnd

SpecWait == InitWait /\ [][NextWait]_vars

(***************************************************************************)
(* The Service Endpoint (the provider side). Its serving loop takes the    *)
(* method calls of the connection in order; a Notify call gets an id, a    *)
(* reply, and a handler that runs on its own with two one-shot senders; a  *)
(* Stop call ends the loop after a grace delay.                            *)
(*   endpoint.pos       idle / accepted / grace / terminated               *)
(*   endpoint.inbox     method calls that arrived and were not taken yet   *)
(*   endpoint.count     the id assigned last                               *)
(*   endpoint.accepted  [replaces_id, id] of each Notify call taken        *)
(*   endpoint.replies   the ids replied, in the order of the replies       *)
(*   endpoint.handlers  one record for each handler that was started       *)
(***************************************************************************)
ReplacesIds == {0, 3}

ActionKeys == {"action", "other"}

CloseReasons == {"Dismissed", "Expired"}

CloseReasonCode(reason) ==
    CASE reason = "Expired" -> 1
      [] reason = "Dismissed" -> 2
      [] reason = "CloseAction" -> 3
      [] OTHER -> 4

ActionInvokedSignal(n, key) ==
    <<"Signal", NOTIFICATION_OBJECTPATH, NOTIFICATION_NAMESPACE, "ActionInvoked",
      << <<"UInt32", n>>, <<"Str", key>> >> >>

NotificationClosedSignal(n, reason) ==
    <<"Signal", NOTIFICATION_OBJECTPATH, NOTIFICATION_NAMESPACE, "NotificationClosed",
      << <<"UInt32", n>>, <<"UInt32", CloseReasonCode(reason)>> >> >>

\* A one-shot sender nobody sent on yet.
NewSender == [sends |-> 0, first |-> <<"None">>]

\* Whether a send on the sender is the one that takes effect: the first.
Emits_EverySend(sender) == TRUE

Emits(sender) == sender.first = <<"None">>

OneShotSend(sender, value) ==
    [sends |-> sender.sends + 1,
     first |-> IF sender.first = <<"None">> THEN <<"Some", value>> ELSE sender.first]

\* The handler task of one Notify call, with the two senders it was given.
NewHandler(n) ==
    [id |-> n, status |-> "running", action |-> NewSender, closer |-> NewSender,
     signals |-> <<>>]

\* The id of a Notify call: a fresh one when the call carries 0, else the
\* id the call carries.
FreshId_Reuses(e) == e.count

FreshId(e) == e.count + 1

AssignId(e, replaces_id) == IF replaces_id = 0 THEN FreshId(e) ELSE replaces_id

\* The loop is between two calls and can take the next one.
LoopReady(e) == e.pos = "idle"

\* The reply of the call taken last can be sent: handlers are not waited for.
ReplyReady_AwaitsHandlers(e) ==
    /\ e.pos = "accepted"
    /\ \A k \in 1..Len(e.handlers) : e.handlers[k].status = "done"

ReplyReady(e) == e.pos = "accepted"

\* Where the loop goes when it takes a Stop call.
AfterStop_KeepsServing(e) == "idle"

AfterStop(e) == "grace"

Alive(e) == e.pos \in {"idle", "accepted", "grace"}

Started ==
    [pos |-> "idle", inbox |-> <<>>, arrived |-> 0, count |-> 0, accepted |-> <<>>,
     replies |-> <<>>, handlers |-> <<>>, sends |-> 0, stop |-> FALSE,
     shutdown |-> FALSE]

clientVars == <<debug_namespace, notification, n_ops, handle, last_reply, waitVars,
                snapshot, codec>>

endpointFrame == <<clientVars, n_sent, last_sent, last_call, stopper>>

\* A client's Notify call arrives on the endpoint's connection.
NotifyArrives ==
    /\ endpoint.pos # "none"
    /\ endpoint.arrived < MaxCalls
    /\ \E replaces_id \in ReplacesIds :
        endpoint' = [endpoint EXCEPT !.inbox = Append(@, <<"Notify", replaces_id>>),
                                     !.arrived = @ + 1]
    /\ UNCHANGED endpointFrame

\* stop_server() up to its pause: the Stop call is built and a private
\* connection is opened, its result unwrapped; then the thread sleeps while
\* the endpoint goes on serving.
stop_server ==
    /\ endpoint.pos # "none"
    /\ ~Panicked
    /\ stopper = "idle"
    /\ n_sent < MaxStops
    /\ \E conn \in ConnResults :
        IF conn = "Err"
        THEN /\ last_call' = Call("stop_server", "Err", <<"Panic">>)
             /\ UNCHANGED stopper
        ELSE /\ stopper' = "pausing"
             /\ UNCHANGED last_call
    /\ UNCHANGED <<clientVars, n_sent, last_sent, endpoint>>

\* stop_server() after its pause: the Stop call is sent, the result
\* unwrapped.
stop_server_send ==
    /\ endpoint.pos # "none"
    /\ stopper = "pausing"
    /\ stopper' = "idle"
    /\ Send(build_message("Stop"))
    /\ \E sent \in ConnResults :
        IF sent = "Err"
        THEN /\ last_call' = Call("stop_server", "Err", <<"Panic">>)
             /\ UNCHANGED endpoint
        ELSE /\ last_call' = Call("stop_server", "Ok", <<"Ok">>)
             /\ endpoint' = [endpoint EXCEPT !.inbox = Append(@, <<"Stop">>)]
    /\ UNCHANGED clientVars

\* The loop takes a Notify call: it decodes it and settles its id.
Accept ==
    /\ endpoint.pos # "none"
    /\ LoopReady(endpoint)
    /\ endpoint.inbox # <<>>
    /\ Head(endpoint.inbox)[1] = "Notify"
    /\ LET replaces_id == Head(endpoint.inbox)[2]
           n == AssignId(endpoint, replaces_id)
       IN  endpoint' = [endpoint EXCEPT
               !.pos = "accepted",
               !.inbox = Tail(@),
               !.count = IF replaces_id = 0 THEN n ELSE @,
               !.accepted = Append(@, [replaces_id |-> replaces_id, id |-> n])]
    /\ UNCHANGED endpointFrame

\* The loop replies with the id and hands the notification to a new handler.
Reply ==
    /\ endpoint.pos # "none"
    /\ ReplyReady(endpoint)
    /\ LET n == endpoint.accepted[Len(endpoint.accepted)].id
       IN  endpoint' = [endpoint EXCEPT
               !.pos = "idle",
               !.replies = Append(@, n),
               !.handlers = Append(@, NewHandler(n))]
    /\ UNCHANGED endpointFrame

\* A handler sends on its action-sender.
HandlerSendAction ==
    /\ endpoint.pos # "none"
    /\ Alive(endpoint)
    /\ endpoint.sends < MaxSends
    /\ \E k \in 1..Len(endpoint.handlers), key \in ActionKeys :
        LET h == endpoint.handlers[k]
        IN  /\ h.status = "running"
            /\ endpoint' = [endpoint EXCEPT
                   !.sends = @ + 1,
                   !.handlers[k].action = OneShotSend(@, key),
                   !.handlers[k].signals =
                       IF Emits(h.action)
                       THEN Append(@, ActionInvokedSignal(h.id, key))
                       ELSE @]
    /\ UNCHANGED endpointFrame

\* A handler sends on its close-sender.
HandlerSendClose ==
    /\ endpoint.pos # "none"
    /\ Alive(endpoint)
    /\ endpoint.sends < MaxSends
    /\ \E k \in 1..Len(endpoint.handlers), reason \in CloseReasons :
        LET h == endpoint.handlers[k]
        IN  /\ h.status = "running"
            /\ endpoint' = [endpoint EXCEPT
                   !.sends = @ + 1,
                   !.handlers[k].closer = OneShotSend(@, reason),
                   !.handlers[k].signals =
                       IF Emits(h.closer)
                       THEN Append(@, NotificationClosedSignal(h.id, reason))
                       ELSE @]
    /\ UNCHANGED endpointFrame

\* A handler returns; its senders are dropped.
HandlerDone ==
    /\ endpoint.pos # "none"
    /\ Alive(endpoint)
    /\ \E k \in 1..Len(endpoint.handlers) :
        /\ endpoint.handlers[k].status = "running"
        /\ endpoint' = [endpoint EXCEPT !.handlers[k].status = "done"]
    /\ UNCHANGED endpointFrame

\* The loop takes a Stop call.
ReceiveStop ==
    /\ endpoint.pos # "none"
    /\ LoopReady(endpoint)
    /\ endpoint.inbox # <<>>
    /\ Head(endpoint.inbox)[1] = "Stop"
    /\ endpoint' = [endpoint EXCEPT !.pos = AfterStop(endpoint),
                                    !.inbox = Tail(@),
                                    !.stop = TRUE]
    /\ UNCHANGED endpointFrame

\* The grace delay is over: the loop ends.
Terminate ==
    /\ endpoint.pos = "grace"
    /\ endpoint' = [endpoint EXCEPT !.pos = "terminated"]
    /\ UNCHANGED endpointFrame

\* The connection is shut down from outside; the loop finds out when it
\* waits for its next call.
Shutdown ==
    /\ endpoint.pos = "idle"
    /\ endpoint' = [endpoint EXCEPT !.pos = "terminated", !.shutdown = TRUE]
    /\ UNCHANGED endpointFrame

InitEndpoint ==
    /\ debug_namespace \in BOOLEAN
    /\ notification = Default
    /\ n_ops = 0
    /\ handle = NoHandle
    /\ n_sent = 0
    /\ last_sent = NoMessage
    /\ last_reply = <<"None">>
    /\ last_call = Call("new", "None", <<"Ok">>)
    /\ wait = "idle"
    /\ target = 0
    /\ wrapper = "none"
    /\ calls = <<>>
    /\ closure_runs = 0
    /\ last_item = <<"None">>
    /\ snapshot = <<"None">>
    /\ codec = NoCodec
    /\ endpoint = Started
    /\ stopper = "idle"

\* The endpoint and its handlers, until the connection is shut down.
NextEndpoint ==
    \/ NotifyArrives \/ Accept \/ Reply \/ Shutdown
    \/ HandlerSendAction \/ HandlerSendClose \/ HandlerDone

SpecEndpoint == InitEndpoint /\ [][NextEndpoint]_vars

\* The serving loop with the Stop call. The loop is a task of its own that
\* the scheduler keeps running: a reply that can be sent is sent, and a
\* grace delay ends. Nothing makes a handler return.
NextServing ==
    \/ NotifyArrives \/ stop_server \/ stop_server_send
    \/ Accept \/ Reply \/ ReceiveStop \/ Terminate \/ Shutdown
    \/ HandlerDone

SpecServing ==
    InitEndpoint /\ [][NextServing]_vars /\ WF_vars(Reply) /\ WF_vars(Terminate)

(***************************************************************************)
(* Properties of the wait loop (checked under SpecWait).                   *)
(***************************************************************************)

\* A signal of one of the two kinds the loop recognizes.
Recognized(item) ==
    /\ item[1] = "Signal"
    /\ item[2] = "/org/freedesktop/Notifications"
    /\ item[3] = "org.freedesktop.Notifications"
    /\ item[4] \in {"ActionInvoked", "NotificationClosed"}

\* A recognized signal for the id n: its first field is the u32 n, and its
\* second field is the action string (ActionInvoked) or the reason code
\* (NotificationClosed).
SignalFor(item, n) ==
    /\ Recognized(item)
    /\ Len(item[5]) >= 2
    /\ item[5][1] = <<"UInt32", n>>
    /\ item[5][2][1] = (IF item[4] = "ActionInvoked" THEN "Str" ELSE "UInt32")

\* A recognized signal whose first field is an id other than n.
SignalForOther(item, n) ==
    /\ Recognized(item)
    /\ Len(item[5]) >= 1
    /\ item[5][1][1] = "UInt32"
    /\ item[5][1][2] # n

\* This step is a turn of the loop: it takes an item from the stream.
TakesItem ==
    /\ wait = "waiting"
    /\ last_item'[1] # "End"
    /\ <<wait, last_item, calls>>' # <<wait, last_item, calls>>

\* C1: for every stream of items and every target id, the callback is invoked
\* exactly once, on the first item that is an ActionInvoked or
\* NotificationClosed signal of the notification path and interface whose
\* first field is the target id, with the signal's action string or with
\* "__closed"; the loop then ends, and the callback is never invoked again.
\* Taken item by item: the loop is still waiting after an item that is no such
\* signal, so that the first one that is reaches it.
C1_CallbackOnceOnFirstMatch ==
    /\ [](Len(calls) <= 1)
    /\ [][TakesItem =>
            IF SignalFor(last_item', target)
            THEN /\ wait' = "done"
                 /\ last_item'[4] = "ActionInvoked"
                       => calls' = Append(calls, last_item'[5][2][2])
                 /\ last_item'[4] = "NotificationClosed"
                       => calls' = Append(calls, "__closed")
            ELSE /\ wait' = "waiting"
                 /\ calls' = calls]_vars
    /\ [][wait = "done" => wait' = "done" /\ calls' = calls]_vars

\* C2: while the wait is on id N, an item that is not a signal, a signal of
\* another (path, interface, member) than the two recognized kinds, or a
\* recognized signal whose id field differs from N is discarded: no callback,
\* no change of state, and the loop keeps waiting.
C2_OtherItemsAreDiscarded ==
    [][TakesItem /\ (\/ last_item'[1] # "Signal"
                     \/ ~Recognized(last_item')
                     \/ SignalForOther(last_item', target))
        => /\ wait' = "waiting"
           /\ UNCHANGED <<stopper, endpoint, snapshot, codec, debug_namespace, notification, n_ops, handle, n_sent,
                          last_sent, last_reply, last_call, target, wrapper,
                          calls, closure_runs>>]_vars

\* C10: the closure given to on_close runs at most once, and only when the
\* closed sentinel for the handle's id is delivered; when ActionInvoked for
\* that id comes first, the wait ends and the closure has not run.
C10_OnCloseOnlyOnClosed ==
    /\ closure_runs <= 1
    /\ closure_runs = 1 =>
          /\ wrapper = "on_close"
          /\ SignalFor(last_item, target)
          /\ last_item[4] = "NotificationClosed"
    /\ (wrapper = "on_close" /\ wait = "done" /\ last_item[4] = "ActionInvoked")
          => closure_runs = 0

\* C11: the blocking wait returns to its caller only after a signal matching
\* the target id has been received: whenever the wait has returned, the item
\* it consumed last is an ActionInvoked or NotificationClosed signal for the
\* target id, also when the stream only timed out or came to its end.
C11_ReturnOnlyAfterMatch ==
    wait \in {"done", "ended"} => SignalFor(last_item, target)

\* A recognized signal with malformed fields: fewer than two, or a first or
\* second field of the wrong type.
Malformed(item) ==
    /\ Recognized(item)
    /\ \/ Len(item[5]) < 2
       \/ item[5][1][1] # "UInt32"
       \/ item[5][2][1] # (IF item[4] = "ActionInvoked" THEN "Str" ELSE "UInt32")

\* C25: a signal of a recognized kind whose fields are malformed is discarded
\* like any other item that does not match: the callback is not invoked and
\* the wait neither ends nor aborts, so that a later well-formed matching
\* signal still reaches the callback.
C25_MalformedSignalsAreDiscarded ==
    [][(TakesItem /\ Malformed(last_item'))
        => /\ wait' = "waiting"
           /\ calls' = calls
           /\ closure_runs' = closure_runs]_vars

\* C26: the closure given to on_close runs only if a NotificationClosed
\* signal for the handle's id was received; no ActionInvoked signal makes it
\* run, whatever its action string, "__closed" included.
C26_ClosureNeedsNotificationClosed ==
    closure_runs >= 1 =>
        /\ last_item[1] = "Signal"
        /\ last_item[4] = "NotificationClosed"
        /\ last_item[5][1] = <<"UInt32", target>>

\* A well-formed ActionInvoked or NotificationClosed signal for the id n on
\* the object path and interface build_message uses in this build.
OwnSignalFor(item, n) ==
    /\ item[1] = "Signal"
    /\ item[2] = NOTIFICATION_OBJECTPATH
    /\ item[3] = NOTIFICATION_NAMESPACE
    /\ item[4] \in {"ActionInvoked", "NotificationClosed"}
    /\ Len(item[5]) >= 2
    /\ item[5][1] = <<"UInt32", n>>
    /\ item[5][2][1] = (IF item[4] = "ActionInvoked" THEN "Str" ELSE "UInt32")

\* C27: the wait recognizes signals on the object path and interface that
\* build_message uses for its calls, in the production build and in the
\* debug_namespace build: a signal for the target id from the service the
\* calls went to ends the wait with the callback invoked.
C27_WaitMatchesOwnNamespace ==
    [][(TakesItem /\ OwnSignalFor(last_item', target))
        => /\ wait' = "done"
           /\ Len(calls') = Len(calls) + 1]_vars

(***************************************************************************)
(* Properties of show, update and close (checked under Spec), and of the   *)
(* calls that return a Result (checked under SpecQuery).                   *)
(***************************************************************************)

\* The id a Notify reply carries: its first field when that is a u32.
HasId(items) == Len(items) >= 1 /\ items[1][1] = "UInt32"

\* A step of show() that got a connection.
ShowStep ==
    /\ last_call'.op = "show"
    /\ last_call'.transport # "ConnErr"
    /\ <<last_call, n_sent>>' # <<last_call, n_sent>>

\* A step of update().
UpdateStep == last_call'.op = "update" /\ n_sent' # n_sent

\* A step of close().
CloseStep == last_call'.op = "close" /\ n_sent' # n_sent

\* The message m is a Notify call for the fields of n, replacing id i.
IsNotifyCallFor(m, n, i) ==
    /\ m.member = "Notify"
    /\ Len(m.items) = 8
    /\ m.items[1] = <<"Str", n.appname>>
    /\ m.items[2] = <<"UInt32", i>>
    /\ m.items[3] = <<"Str", n.icon>>
    /\ m.items[4] = <<"Str", n.summary>>
    /\ m.items[5] = <<"Str", n.body>>
    /\ m.items[6][1] = "Array" /\ m.items[6][2] = "as"
    /\ Len(m.items[6][3]) = Len(n.actions)
    /\ \A k \in 1..Len(n.actions) : m.items[6][3][k] = <<"Str", n.actions[k]>>
    /\ m.items[7][1] = "Array" /\ m.items[7][2] = "a{sv}"
    /\ Cardinality(m.items[7][3]) = Cardinality(n.hints)
    /\ \A h \in n.hints : \E e \in m.items[7][3] : e = wrap_hint(h)
    /\ m.items[8][1] = "Int32"
    /\ n.timeout = <<"Default">> => m.items[8][2] = 0 - 1
    /\ n.timeout = <<"Never">> => m.items[8][2] = 0
    /\ n.timeout[1] = "Milliseconds" => m.items[8][2] = n.timeout[2]

\* C3: the id a handle holds is the id of the latest Notify reply received
\* for it: that of show(), or that of the latest update() that completed.
C3_HandleIdIsLatestReply ==
    handle.state # "none" =>
        /\ last_reply[1] = "Some"
        /\ HasId(last_reply[2]) => handle.id = last_reply[2][1][2]
        /\ ~HasId(last_reply[2]) => handle.id = 0

C3_Witness ==
    /\ last_call = Call("update", "Reply", <<"Ok">>)
    /\ last_sent.items[2] = <<"UInt32", 7>>
    /\ handle.id = 3

\* C4: show() sends one Notify call, with replaces_id 0 when the notification
\* has no id of its own and that id otherwise, and with the notification's
\* appname, icon, summary, body, actions, hints and timeout; the handle it
\* returns holds the id of the reply.
C4_ShowSendsNotify ==
    [][ShowStep =>
        /\ n_sent' = n_sent + 1
        /\ notification.id = <<"None">> =>
              IsNotifyCallFor(last_sent', notification, 0)
        /\ notification.id[1] = "Some" =>
              IsNotifyCallFor(last_sent', notification, notification.id[2])
        /\ \A k \in Ids :
              (/\ last_call'.transport = "Reply"
               /\ HasId(last_reply'[2])
               /\ last_reply'[2][1][2] = k)
              => handle'.state = "live" /\ handle'.id = k]_vars

C4_Witness ==
    /\ last_call = Call("show", "Reply", <<"Ok", 7>>)
    /\ notification.id = <<"Some", 3>>
    /\ last_sent.items[2] = <<"UInt32", 3>>
    /\ handle.id = 7

\* C5: update() sends a Notify call with the fields the handle's notification
\* has now and the handle's id as replaces_id; when a reply comes the handle's
\* id becomes the id of the reply, also when that is another id.
C5_UpdateSendsCurrent ==
    [][UpdateStep =>
        /\ n_sent' = n_sent + 1
        /\ IsNotifyCallFor(last_sent', handle.notification, handle.id)
        /\ \A k \in Ids :
              (/\ last_call'.transport = "Reply"
               /\ HasId(last_reply'[2])
               /\ last_reply'[2][1][2] = k)
              => last_call'.result = <<"Ok">> /\ handle'.id = k]_vars

C5_Witness ==
    /\ last_call = Call("update", "Reply", <<"Ok">>)
    /\ handle.notification.summary = "Hi"
    /\ notification.summary = ""
    /\ last_sent.items[4] = <<"Str", "Hi">>
    /\ last_sent.items[2] = <<"UInt32", 7>>
    /\ handle.id = 3

\* C6 as stated: when the Notify call of update() fails in the transport,
\* update() returns normally and the handle keeps its id.
C6_UpdateFailureDiscarded ==
    [][(UpdateStep /\ last_call'.transport = "Err") =>
        /\ last_call'.result = <<"Ok">>
        /\ handle'.id = handle.id]_vars

\* C6 as amended: when the Notify call of update() fails in the transport,
\* update() panics (the result is unwrapped): it does not return, no id is
\* assigned, and the handle keeps the id and the notification it had.
C6_UpdateFailurePanics ==
    [][(UpdateStep /\ last_call'.transport = "Err") =>
        /\ last_call'.result = <<"Panic">>
        /\ handle' = handle
        /\ last_reply' = last_reply]_vars

C6_Witness ==
    /\ last_call = Call("update", "Err", <<"Panic">>)
    /\ handle.state = "live"
    /\ handle.id = 7

\* C7: a Notify reply whose first field is absent or not a u32 makes the call
\* succeed with id 0: the handle of show(), and the handle after update(),
\* has id 0.
C7_BadReplyGivesIdZero ==
    (/\ last_call.op \in {"show", "update"}
     /\ last_call.transport = "Reply"
     /\ ~HasId(last_reply[2]))
        => /\ last_call.result \in {<<"Ok", 0>>, <<"Ok">>}
           /\ last_call.op = "show" => last_call.result = <<"Ok", 0>>
           /\ handle.state = "live"
           /\ handle.id = 0

C7_Witness ==
    /\ last_call = Call("show", "Reply", <<"Ok", 0>>)
    /\ last_reply = <<"Some", << <<"Str", "7">> >> >>
    /\ handle.state = "live"
    /\ handle.id = 0

\* C8: show(), get_capabilities() and get_server_information() return an
\* error exactly when the connection cannot be had or the call with reply
\* fails; whatever a reply holds, they return Ok; and a show() that returns an
\* error makes no handle.
C8_ErrorsOnlyFromTransport ==
    last_call.op \in {"show", "get_capabilities", "get_server_information"} =>
        /\ last_call.result = <<"Err">> <=> last_call.transport \in {"ConnErr", "Err"}
        /\ last_call.transport = "Reply" => last_call.result[1] = "Ok"
        /\ (last_call.op = "show" /\ last_call.result = <<"Err">>)
              => handle = NoHandle

C8_Witness ==
    /\ last_call.op = "get_capabilities"
    /\ last_call.transport = "Reply"
    /\ last_call.result = <<"Ok", <<>>>>
    /\ last_sent.member = "GetCapabilities"
    /\ n_sent = 2
    /\ handle.state = "live"

\* C9: close() consumes the handle and sends one CloseNotification call with
\* the id the handle holds, which is that of the latest Notify reply; it waits
\* for no reply, returns normally also when the send fails, and afterwards
\* nothing can be done with the handle.
C9_CloseSendsCurrentId ==
    /\ [][CloseStep =>
            /\ handle.state = "live"
            /\ handle' = [handle EXCEPT !.state = "consumed"]
            /\ n_sent' = n_sent + 1
            /\ last_sent'.member = "CloseNotification"
            /\ last_sent'.items = << <<"UInt32", handle.id>> >>
            /\ HasId(last_reply[2]) => last_sent'.items[1][2] = last_reply[2][1][2]
            /\ last_reply' = last_reply
            /\ last_call'.result = <<"Ok">>]_vars
    /\ [][handle.state = "consumed" => handle' = handle /\ n_sent' = n_sent]_vars

C9_Witness ==
    /\ last_call = Call("close", "Err", <<"Ok">>)
    /\ handle.state = "consumed"
    /\ n_sent = 3
    /\ last_reply = <<"Some", << <<"UInt32", 3>> >> >>
    /\ last_sent.items = << <<"UInt32", 3>> >>
    /\ notification.id = <<"Some", 7>>

(***************************************************************************)
(* Properties of the replies the queries read (checked under SpecQuery).   *)
(***************************************************************************)

\* The string at position k (from 1) of a reply, "" when the reply has no
\* such position or holds something else there.
StrAt(items, k) ==
    IF k <= Len(items) /\ items[k][1] = "Str" THEN items[k][2] ELSE ""

\* C19: get_server_information() decodes the four positional fields name,
\* vendor, version, spec_version independently: each is the reply's string
\* at its position, or "" when that position is absent or no string; a bad
\* field changes no other field and gives no error.
C19_FieldsDecodedIndependently ==
    (last_call.op = "get_server_information" /\ last_call.transport = "Reply") =>
        LET items == last_call.arg[2] IN
        /\ last_call.result[1] = "Ok"
        /\ last_call.result[2].name = StrAt(items, 1)
        /\ last_call.result[2].vendor = StrAt(items, 2)
        /\ last_call.result[2].version = StrAt(items, 3)
        /\ last_call.result[2].spec_version = StrAt(items, 4)

\* A reply whose second field is no string and whose third and fourth are.
C19_Witness ==
    /\ last_call.op = "get_server_information"
    /\ last_call.transport = "Reply"
    /\ Len(last_call.arg[2]) = 4
    /\ last_call.arg[2][2][1] = "UInt32"
    /\ last_call.result[2].vendor = ""
    /\ last_call.result[2].version = "1.9"
    /\ last_call.result[2].spec_version = "1.2"

\* C20: get_capabilities() returns exactly the string elements of the
\* reply's first field, in their order, skipping every element that is no
\* string without an error; when the first field is absent or no array the
\* result is the empty list.
C20_CapabilitiesAreTheStrings ==
    (last_call.op = "get_capabilities" /\ last_call.transport = "Reply") =>
        LET items == last_call.arg[2]
            caps  == last_call.result[2]
        IN
        /\ last_call.result[1] = "Ok"
        /\ IF Len(items) >= 1 /\ items[1][1] = "Array"
           THEN LET arr  == items[1][3]
                    strs == {p \in 1..Len(arr) : arr[p][1] = "Str"}
                IN  /\ Len(caps) = Cardinality(strs)
                    /\ \A p \in strs :
                          caps[Cardinality({q \in strs : q <= p})] = arr[p][2]
           ELSE caps = <<>>

\* A reply whose array holds a non-string between two strings.
C20_Witness ==
    /\ last_call.op = "get_capabilities"
    /\ last_call.transport = "Reply"
    /\ Len(last_call.arg[2]) = 1
    /\ last_call.arg[2][1][1] = "Array"
    /\ Len(last_call.arg[2][1][3]) = 3
    /\ last_call.result = <<"Ok", <<"body", "actions">>>>

(***************************************************************************)
(* Properties of hints and timeouts over the wire (checked under           *)
(* SpecCodec).                                                             *)
(***************************************************************************)

\* The Notify call show() sent has been decoded.
SentDecoded == codec.phase = "decoded" /\ codec.origin = "sent"

\* The wire integer of the timeout t, as the claim lists it.
WireOf(t) ==
    IF t[1] = "Default" THEN 0 - 1 ELSE IF t[1] = "Never" THEN 0 ELSE t[2]

\* C15 as stated: Default encodes to -1, Never to 0, Milliseconds(N) to N,
\* and for every Timeout value decoding its encoding gives the same variant
\* with the same millisecond count.
C15_TimeoutRoundTrip ==
    SentDecoded =>
        /\ codec.wire_timeout = WireOf(notification.timeout)
        /\ codec.timeout[1] = notification.timeout[1]
        /\ codec.timeout = notification.timeout

\* C15 amended: the encoding is as stated, and decoding it gives the Timeout
\* back for Default, Never and Milliseconds(N) with N >= 1; Milliseconds(0)
\* encodes to 0 like Never and is decoded as Never.
C15_TimeoutRoundTripButZero ==
    SentDecoded =>
        /\ codec.wire_timeout = WireOf(notification.timeout)
        /\ IF notification.timeout[1] = "Milliseconds" /\ notification.timeout[2] = 0
           THEN codec.timeout = <<"Never">>
           ELSE /\ codec.timeout[1] = notification.timeout[1]
                /\ codec.timeout = notification.timeout

\* Milliseconds(0) has been sent and decoded.
C15_Witness ==
    /\ SentDecoded
    /\ notification.timeout[1] = "Milliseconds"
    /\ notification.timeout[2] = 0
    /\ codec.wire_timeout = 0
    /\ codec.timeout = <<"Never">>

\* C16: for every hint h of a variant other than Custom,
\* decode(encode(h)) = h: each hint of the Notification goes out as one
\* entry of the map, and decoding the map gives back the same variants with
\* the same payloads, nothing lost, nothing added and no error.
C16_HintRoundTrip ==
    SentDecoded =>
        /\ Cardinality(codec.wire_hints) = Cardinality(notification.hints)
        /\ codec.errors = 0
        /\ \A h \in notification.hints : h[1] # "Custom" => h \in codec.hints
        /\ \A r \in codec.hints : r[1] # "Custom" => r \in notification.hints

\* An urgency and an image have been sent together and decoded.
C16_Witness ==
    /\ SentDecoded
    /\ <<"Urgency", "Critical">> \in notification.hints
    /\ <<"ImageData", ImageSample>> \in notification.hints
    /\ codec.hints = notification.hints

\* The keys of the hint map that stand for a variant.
KnownKeys ==
    {"action-icons", "category", "desktop-entry", "image-path", "resident",
     "sound-file", "sound-name", "suppress-sound", "transient", "x", "y",
     "urgency", "image-data"}

\* The entries of the decoded map whose key no variant recognizes.
UnknownEntries == {e \in codec.wire_hints : e[1] \notin KnownKeys}

\* C17: decoding a hint map with a key no variant recognizes raises no
\* error and gives Custom(key, value) for that entry, and the other hints of
\* the message are decoded and kept: the decoded hints are as many as the
\* distinct variants among the entries (one for each known key, and Custom).
C17_UnknownKeyDecodesToCustom ==
    (codec.phase = "decoded" /\ codec.origin = "foreign" /\ UnknownEntries # {}) =>
        /\ codec.errors = 0
        /\ \A r \in codec.hints : r[1] # "Error"
        /\ Cardinality(codec.hints) =
              Cardinality(codec.wire_hints \ UnknownEntries) + 1
        /\ \E e \in UnknownEntries, r \in codec.hints :
              /\ r[1] = "Custom"
              /\ r[2] = e[1]
              /\ e[2][2][1] = "Str" => r[3] = e[2][2][2]
        /\ \A r \in codec.hints :
              r[1] = "Custom" => \E e \in UnknownEntries : r[2] = e[1]

\* "vendor-x" has been decoded next to an urgency and a category.
C17_Witness ==
    /\ codec.phase = "decoded"
    /\ codec.origin = "foreign"
    /\ Cardinality(codec.wire_hints) = 3
    /\ <<"Custom", "vendor-x", "v">> \in codec.hints
    /\ <<"Urgency", "Critical">> \in codec.hints
    /\ <<"Category", "email">> \in codec.hints

(***************************************************************************)
(* Properties of the builder (checked under SpecBuilder).                  *)
(***************************************************************************)

\* A step of the builder: one more call has been made.
BuildStep == n_ops' = n_ops + 1

\* The hint the latest hint(h) or urgency(u) call was given.
HintGiven ==
    IF last_call.op = "urgency" THEN <<"Urgency", last_call.arg>> ELSE last_call.arg

\* C12: after any sequence of hint(h) calls the hint set holds at most one
\* hint per variant, and the hint it holds of a variant is the one inserted
\* last: right after hint(h) (or urgency(u)), h itself is in the set.
C12_LastHintOfVariantWins ==
    /\ [](\A a, b \in notification.hints : a[1] = b[1] => a = b)
    /\ [][(BuildStep /\ last_call'.op \in {"hint", "urgency"})
            => HintGiven' \in notification'.hints]_vars

\* C13 as stated: in every reachable state of a Notification the length of
\* the actions sequence is even, the legacy actions(list) setter included.
C13_ActionsLengthEven == Len(notification.actions) % 2 = 0

\* C13 amended: actions(list) stores the list it is given as it is, of even
\* or odd length; every other builder operation keeps the parity of the
\* length, so the length is even as long as actions(list) was only given
\* lists of even length.
C13_ActionsParity ==
    [][BuildStep =>
        IF last_call'.op = "actions"
        THEN notification'.actions = last_call'.arg
        ELSE Len(notification'.actions) % 2 = Len(notification.actions) % 2]_vars

\* action(id, label) has been called on a Notification whose actions had an
\* odd length.
C13_Witness ==
    /\ last_call.op = "action"
    /\ Len(notification.actions) = 3

\* C14: action(id, label) grows the actions sequence by exactly 2: the new
\* sequence is the previous one, in the same order, followed by id and then
\* label, and every other field of the Notification is unchanged.
C14_ActionAppendsPair ==
    [][(BuildStep /\ last_call'.op = "action") =>
        LET old == notification.actions
            new == notification'.actions
        IN  /\ Len(new) = Len(old) + 2
            /\ \A i \in 1..Len(old) : new[i] = old[i]
            /\ new[Len(old) + 1] = last_call'.arg[1]
            /\ new[Len(old) + 2] = last_call'.arg[2]
            /\ \A f \in DOMAIN notification \ {"actions"} :
                   notification'[f] = notification[f]]_vars

\* action(id, label) has been called on a Notification that had actions.
C14_Witness ==
    /\ last_call.op = "action"
    /\ Len(notification.actions) >= 4
    /\ notification.hints # {}

\* C18: finalize() returns a Notification with the builder's fields and
\* leaves the builder unchanged; every builder operation after it leaves
\* every field of the returned Notification unchanged.
C18_FinalizeIsSnapshot ==
    /\ [][(BuildStep /\ last_call'.op = "finalize") =>
            /\ snapshot' = <<"Some", notification>>
            /\ notification' = notification]_vars
    /\ [][(BuildStep /\ last_call'.op # "finalize" /\ snapshot[1] = "Some") =>
            /\ snapshot' = snapshot
            /\ \A f \in DOMAIN snapshot[2] : snapshot'[2][f] = snapshot[2][f]]_vars

\* The builder has been changed after finalize(): it differs from the
\* Notification finalize() returned.
C18_Witness ==
    /\ snapshot[1] = "Some"
    /\ snapshot[2] # Default
    /\ snapshot[2] # notification
    /\ last_call.op # "finalize"

(***************************************************************************)
(* Properties of the Service Endpoint (checked under SpecEndpoint and, for *)
(* what the loop eventually does, under SpecServing).                      *)
(***************************************************************************)

\* C21: every reply to a Notify call that carried replaces_id 0 holds a
\* nonzero id, and the ids given to such calls increase strictly in the
\* order the calls arrived, so that no two of them get the same id.
C21_FreshIdsIncrease ==
    endpoint.pos # "none" =>
        \A k \in 1..Len(endpoint.replies) :
            endpoint.accepted[k].replaces_id = 0 =>
                /\ endpoint.replies[k] # 0
                /\ \A j \in 1..(k - 1) :
                       endpoint.accepted[j].replaces_id = 0 =>
                           endpoint.replies[j] < endpoint.replies[k]

\* Two calls with replaces_id 0 were replied to.
C21_Witness ==
    /\ endpoint.pos # "none"
    /\ Len(endpoint.replies) >= 2
    /\ endpoint.accepted[1].replaces_id = 0
    /\ endpoint.accepted[2].replaces_id = 0

\* C22: the reply of a Notify call does not wait for a handler: whatever the
\* handlers do, and if they never return, every Notify call the loop has
\* taken eventually gets its reply.
C22_ReplyDoesNotAwaitHandlers ==
    \A k \in 1..MaxCalls :
        (endpoint.pos # "none" /\ Len(endpoint.accepted) >= k)
            ~> (Len(endpoint.replies) >= k)

\* A later call was replied to while the handler of the first still runs.
C22_Witness ==
    /\ endpoint.pos # "none"
    /\ Len(endpoint.replies) >= 2
    /\ endpoint.handlers[1].status = "running"

IsActionInvoked(signal) == signal[4] = "ActionInvoked"

IsNotificationClosed(signal) == signal[4] = "NotificationClosed"

\* C23: for each notification handed to a handler, each of its two senders
\* takes effect at most once: however often the handler sends, and when it
\* sends on both, at most one ActionInvoked and at most one
\* NotificationClosed signal is emitted for it, each with the value of the
\* first send on its sender.
C23_SendersAreOneShot ==
    endpoint.pos # "none" =>
        \A k \in 1..Len(endpoint.handlers) :
            LET h == endpoint.handlers[k]
                invoked == SelectSeq(h.signals, IsActionInvoked)
                closed == SelectSeq(h.signals, IsNotificationClosed)
            IN  /\ Len(invoked) <= 1
                /\ Len(closed) <= 1
                /\ Len(invoked) = 1 =>
                       /\ h.action.first # <<"None">>
                       /\ invoked[1] = ActionInvokedSignal(h.id, h.action.first[2])
                /\ Len(closed) = 1 =>
                       /\ h.closer.first # <<"None">>
                       /\ closed[1] = NotificationClosedSignal(h.id, h.closer.first[2])

\* A handler sent twice on its action-sender and also on its close-sender.
C23_Witness ==
    /\ endpoint.pos # "none"
    /\ \E k \in 1..Len(endpoint.handlers) :
        /\ endpoint.handlers[k].action.sends >= 2
        /\ endpoint.handlers[k].closer.sends >= 1
        /\ Len(endpoint.handlers[k].signals) = 2

\* C24: once the endpoint has received Stop its serving loop eventually
\* terminates; after the loop has terminated no Notify call is taken or
\* replied to; and the loop terminates only if Stop was received or the
\* connection was shut down.
C24_StopEndsTheLoop ==
    /\ (endpoint.pos # "none" /\ endpoint.stop) ~> (endpoint.pos = "terminated")
    /\ [][endpoint.pos = "terminated" =>
            /\ endpoint'.pos = "terminated"
            /\ endpoint'.accepted = endpoint.accepted
            /\ endpoint'.replies = endpoint.replies]_vars
    /\ [](endpoint.pos = "terminated" => (endpoint.stop \/ endpoint.shutdown))

\* The loop served a call, ended on Stop, and a call that arrived later is
\* still waiting.
C24_Witness ==
    /\ endpoint.pos = "terminated"
    /\ endpoint.stop
    /\ ~endpoint.shutdown
    /\ Len(endpoint.replies) >= 1
    /\ \E i \in 1..Len(endpoint.inbox) : endpoint.inbox[i][1] = "Notify"

====
